---- MODULE Spec2Model ----
(***************************************************************************)
(* A model of the chili / jinn compiler front-end: the type unifier of     *)
(* chili_infer_new (unify.rs), the top-level pass of chili_check (lib.rs)  *)
(* the parallel parse driver of chili_parse (lib.rs) and the top-level     *)
(* parse loops (chili_parse lib.rs, parse/top_level.rs), the export and    *)
(* glob passes of chili_resolve (import.rs), the constants, globals and    *)
(* init prologue of chili_interp (interp.rs) and the check of a call       *)
(* expression (check/call.rs).                                             *)
(***************************************************************************)
EXTENDS Integers, Sequences, FiniteSets, TLC

VARIABLES
    tcx,            \* TyCtx: slot id -> Unbound or the bound TyKind
    call,           \* the last unify call: receiver, argument, result
    cpc,            \* check(): position in the function
    cur,            \* check(): index of the item the loop in progress is at
    asts,           \* check(): the Asts being checked
    binding_infos,  \* check(): workspace.binding_infos
    table,          \* check(): the inference table of InferenceContext
    diags,          \* check(): the diagnostics returned, as <<stage, item index>>
    checked,        \* check(): the items that were checked
    cres,           \* check(): the value check() returned
    wmod,           \* parse: the ModuleInfo each worker was spawned for
    wpc,            \* parse: each worker's position in Parser::parse
    wres,           \* parse: each worker's ParserResult
    lock,           \* parse: the holder of the ParserCache mutex (0: free)
    parsed_modules, \* parse: ParserCache.parsed_modules
    total_lines,    \* parse: ParserCache.total_lines
    chan,           \* parse: the results sent on the channel, in order
    readable,       \* parse: which module files read_to_string can read
    wread,          \* parse: the workers that called read_to_string
    tparser,        \* top-level loop: which driver runs it
    tokens,         \* top-level loop: Parser.tokens, kinds only, Eof last
    current,        \* top-level loop: Parser.current (1-based)
    tbindings,      \* top-level loop: module.bindings, as token positions
    tdiags,         \* top-level loop: diagnostics reported, as token positions
    tres,           \* top-level loop: the ParserResult of the module
    rin,            \* resolve: the Asts as the parse stage delivered them
    rasts,          \* resolve: the Asts, their imports rewritten in place
    exports,        \* resolve: ModuleExports, module id -> (symbol -> binding id)
    rpc,            \* resolve: position in the stage
    rcur,           \* resolve: the Ast whose globs are expanded next
    constants,      \* interp: Interp.constants
    globals,        \* interp: Interp.globals
    bindings_to_globals, \* interp: Interp.bindings_to_globals, id -> slot
    evaluated_globals,   \* interp: InterpSess.evaluated_globals
    lowered,        \* interp: the instructions lowered into start_code so far
    start_code,     \* interp: the instructions of the start function eval runs
    ipc,            \* interp: position in eval
    iop,            \* interp: the operation that ran last
    iret,           \* interp: the id and the slot returned by the last insert_global
    kparams,        \* call check: function_type.params
    kvarargs,       \* call check: function_type.varargs
    kargs,          \* call check: self.args
    kpc,            \* call check: position in Check for ast::Call
    kidx,           \* call check: index of the argument the loop is at
    koffset,        \* call check: param_offset
    kout,           \* call check: args, the argument list being emitted
    kvar,           \* call check: vararg_args
    kres,           \* call check: the result of the check
    fpat,           \* pattern: the Pattern a projection is called on
    fop,            \* pattern: the projection that was called
    fres            \* pattern: what the call produced

uvars == <<tcx, call>>
cvars == <<cpc, cur, asts, binding_infos, table, diags, checked, cres>>
pvars == <<wmod, wpc, wres, lock, parsed_modules, total_lines, chan, readable, wread>>
tvars == <<tparser, tokens, current, tbindings, tdiags, tres>>
rvars == <<rin, rasts, exports, rpc, rcur>>
ivars == <<constants, globals, bindings_to_globals, evaluated_globals,
           lowered, start_code, ipc, iop, iret>>
kvars == <<kparams, kvarargs, kargs, kpc, kidx, koffset, kout, kvar, kres>>
fvars == <<fpat, fop, fres>>
nvars == <<tvars, rvars, ivars, kvars, fvars>>
vars == <<uvars, cvars, pvars, nvars>>

(***************************************************************************)
(* Bounds of the model.                                                    *)
(***************************************************************************)
NumVars == 2        \* type variables allocated in the TyCtx
MaxDepth == 12      \* nested unify / normalize calls before the stack is exhausted

(***************************************************************************)
(* TyKind.  Every kind is a record [tag, n, aux, kids]:                    *)
(*   Int/UInt/Float: n is the width; Var/AnyInt/AnyFloat: n is the slot;   *)
(*   Pointer/MultiPointer/Slice: n = 1 iff mutable, kids = <<inner>>;      *)
(*   Array: n is the size; Tuple: kids are the elements;                   *)
(*   Fn: kids = params \o <<ret>>, n = 1 iff variadic;                     *)
(*   Struct: n is binding_info_id, aux the kind, kids the field types;     *)
(*   Type: kids = <<inner>>.                                               *)
(***************************************************************************)
Ty(tag, n, aux, kids) == [tag |-> tag, n |-> n, aux |-> aux, kids |-> kids]

Unit == Ty("Unit", 0, "", <<>>)
Bool == Ty("Bool", 0, "", <<>>)
Never == Ty("Never", 0, "", <<>>)
Str == Ty("String", 0, "", <<>>)
TInt(w) == Ty("Int", w, "", <<>>)
TUInt(w) == Ty("UInt", w, "", <<>>)
TFloat(w) == Ty("Float", w, "", <<>>)
Var(v) == Ty("Var", v, "", <<>>)
AnyInt(v) == Ty("AnyInt", v, "", <<>>)
AnyFloat(v) == Ty("AnyFloat", v, "", <<>>)
Pointer(t, m) == Ty("Pointer", IF m THEN 1 ELSE 0, "", <<t>>)
MultiPointer(t, m) == Ty("MultiPointer", IF m THEN 1 ELSE 0, "", <<t>>)
Slice(t, m) == Ty("Slice", IF m THEN 1 ELSE 0, "", <<t>>)
Array(t, size) == Ty("Array", size, "", <<t>>)
Tuple(ts) == Ty("Tuple", 0, "", ts)
Fn(params, variadic, ret) == Ty("Fn", IF variadic THEN 1 ELSE 0, "", params \o <<ret>>)
Struct(id, kind, fields) == Ty("Struct", id, kind, fields)
Type(t) == Ty("Type", 0, "", <<t>>)

\* TyBinding::Unbound; a Bound(kind) slot holds the kind itself
Unbound == Ty("Unbound", 0, "", <<>>)
\* the value of a call that exhausted the stack
Overflow == Ty("Overflow", 0, "", <<>>)

Slots == 0 .. (NumVars - 1)

\* TyCtx::get_binding
GetBinding(cx, v) == cx[v]

\* TyCtx::bind
Bind(cx, v, ty) == [cx EXCEPT ![v] = ty]

(***************************************************************************)
(* normalize (normalize.rs is not part of the sources; modelled from the   *)
(* specification): walk the type and replace every Var whose slot is Bound *)
(* by the normalized binding; Unbound variables are left alone.  A walk of *)
(* more than `fuel` nested calls exhausts the stack.                       *)
(***************************************************************************)
RECURSIVE NormalizeF(_, _, _)
NormalizeF(t, cx, fuel) ==
    IF fuel = 0 THEN Overflow
    ELSE IF t.tag = "Var"
    THEN IF GetBinding(cx, t.n) = Unbound THEN t
         ELSE NormalizeF(GetBinding(cx, t.n), cx, fuel - 1)
    ELSE [t EXCEPT !.kids = [i \in 1 .. Len(t.kids) |-> NormalizeF(t.kids[i], cx, fuel - 1)]]

Normalize(t, cx) == NormalizeF(t, cx, MaxDepth)

\* whether a normalize call ran out of stack somewhere in the walk
RECURSIVE Overflowed(_)
Overflowed(t) ==
    \/ t.tag = "Overflow"
    \/ \E i \in 1 .. Len(t.kids) : Overflowed(t.kids[i])

\* Var(v) appears syntactically in t
RECURSIVE Appears(_, _)
Appears(v, t) ==
    \/ t = Var(v)
    \/ \E i \in 1 .. Len(t.kids) : Appears(v, t.kids[i])

\* the slots a kind refers to, through Var, AnyInt and AnyFloat nodes
RECURSIVE Refs(_)
Refs(t) ==
    (IF t.tag \in {"Var", "AnyInt", "AnyFloat"} THEN {t.n} ELSE {})
        \cup UNION {Refs(t.kids[i]) : i \in 1 .. Len(t.kids)}

(***************************************************************************)
(* occurs (unify.rs 166-187)                                               *)
(***************************************************************************)
RECURSIVE occurs(_, _, _)
occurs(var, kind, cx) ==
    CASE kind.tag = "Var" ->
            IF GetBinding(cx, kind.n) # Unbound
            THEN occurs(var, GetBinding(cx, kind.n), cx)
            ELSE var = kind.n
      [] kind.tag \in {"Fn", "Pointer", "MultiPointer", "Array", "Slice", "Tuple", "Struct"} ->
            \E i \in 1 .. Len(kind.kids) : occurs(var, kind.kids[i], cx)
      [] OTHER -> FALSE

\* can_coerce_mut (unify.rs 190-192)
can_coerce_mut(from, to) == from = to \/ (~from /\ to)

(***************************************************************************)
(* unify.  A result is [res, cx]: Ok / Mismatch / Occurs and the TyCtx the *)
(* call leaves behind; Overflow when the recursion does not end.           *)
(***************************************************************************)
Res(r, cx) == [res |-> r, cx |-> cx]

\* the or-pattern of unify.rs 56-69: the first alternative that matches
\* gives the variable that is bound and the kind it is bound to
AnyArm(a, b) ==
    CASE a.tag = "AnyInt" /\ b.tag = "AnyInt" -> <<a.n, b>>
      [] a.tag = "AnyInt" /\ b.tag = "Int" -> <<a.n, b>>
      [] a.tag = "Int" /\ b.tag = "AnyInt" -> <<b.n, a>>
      [] a.tag = "AnyInt" /\ b.tag = "UInt" -> <<a.n, b>>
      [] a.tag = "UInt" /\ b.tag = "AnyInt" -> <<b.n, a>>
      [] a.tag = "AnyInt" /\ b.tag = "AnyFloat" -> <<a.n, b>>
      [] a.tag = "AnyFloat" /\ b.tag = "AnyInt" -> <<b.n, a>>
      [] a.tag = "AnyInt" /\ b.tag = "Float" -> <<a.n, b>>
      [] a.tag = "Float" /\ b.tag = "AnyInt" -> <<b.n, a>>
      [] a.tag = "AnyFloat" /\ b.tag = "AnyFloat" -> <<a.n, b>>
      [] a.tag = "AnyFloat" /\ b.tag = "Float" -> <<a.n, b>>
      [] a.tag = "Float" /\ b.tag = "AnyFloat" -> <<b.n, a>>
      [] OTHER -> <<>>

RECURSIVE UnifyF(_, _, _, _)
RECURSIVE UnifySeq(_, _, _, _, _)
RECURSIVE unify_var_ty(_, _, _, _)

\* the loops `for (x, y) in xs.iter().zip(ys.iter()) { x.unify(y)?; }`
UnifySeq(xs, ys, i, cx, fuel) ==
    IF i > Len(xs) \/ i > Len(ys) THEN Res("Ok", cx)
    ELSE LET r == UnifyF(xs[i], ys[i], cx, fuel)
         IN IF r.res # "Ok" THEN r ELSE UnifySeq(xs, ys, i + 1, r.cx, fuel)

\* unify_var_ty (unify.rs 146-164)
unify_var_ty(var, other, cx, fuel) ==
    IF GetBinding(cx, var) # Unbound
    THEN UnifyF(GetBinding(cx, var), other, cx, fuel)
    ELSE LET other_norm == NormalizeF(other, cx, fuel)
         IN IF Overflowed(other_norm) THEN Res("Overflow", cx)
            ELSE IF Var(var) # other_norm
            THEN IF occurs(var, other_norm, cx)
                 THEN Res("Occurs", cx)
                 ELSE Res("Ok", Bind(cx, var, other_norm))
            ELSE Res("Ok", cx)

\* impl Unify<TyKind> for TyKind (unify.rs 45-144), the arms in match order
UnifyF(a, b, cx, fuel) ==
    IF fuel = 0 THEN Res("Overflow", cx)
    ELSE IF a.tag = "Unit" /\ b.tag = "Unit" THEN Res("Ok", cx)
    ELSE IF a.tag = "Bool" /\ b.tag = "Bool" THEN Res("Ok", cx)
    ELSE IF a.tag \in {"Int", "UInt", "Float"} /\ a.tag = b.tag /\ a.n = b.n THEN Res("Ok", cx)
    ELSE IF AnyArm(a, b) # <<>>
    THEN Res("Ok", Bind(cx, AnyArm(a, b)[1], AnyArm(a, b)[2]))
    ELSE IF a.tag \in {"Pointer", "MultiPointer", "Slice"} /\ a.tag = b.tag
    THEN IF ~can_coerce_mut(a.n = 1, b.n = 1) THEN Res("Mismatch", cx)
         ELSE UnifyF(a.kids[1], b.kids[1], cx, fuel - 1)
    ELSE IF a.tag = "Fn" /\ b.tag = "Fn"
    THEN IF Len(a.kids) # Len(b.kids) \/ a.n # b.n THEN Res("Mismatch", cx)
         ELSE UnifySeq(a.kids, b.kids, 1, cx, fuel - 1)
    ELSE IF a.tag = "Array" /\ b.tag = "Array"
    THEN IF a.n # b.n THEN Res("Mismatch", cx)
         ELSE UnifyF(a.kids[1], b.kids[1], cx, fuel - 1)
    ELSE IF a.tag = "Tuple" /\ b.tag = "Tuple"
    THEN IF Len(a.kids) # Len(b.kids) THEN Res("Mismatch", cx)
         ELSE UnifySeq(a.kids, b.kids, 1, cx, fuel - 1)
    ELSE IF a.tag = "Struct" /\ b.tag = "Struct"
    THEN IF a.n = b.n THEN Res("Ok", cx)
         ELSE IF Len(a.kids) # Len(b.kids) \/ a.aux # b.aux THEN Res("Mismatch", cx)
         ELSE UnifySeq(a.kids, b.kids, 1, cx, fuel - 1)
    ELSE IF a.tag = "Type" /\ b.tag = "Type" THEN UnifyF(a.kids[1], b.kids[1], cx, fuel - 1)
    ELSE IF a.tag = "Type" THEN UnifyF(a.kids[1], b, cx, fuel - 1)
    ELSE IF b.tag = "Type" THEN UnifyF(a, b.kids[1], cx, fuel - 1)
    ELSE IF a.tag = "Var" THEN unify_var_ty(a.n, b, cx, fuel - 1)
    ELSE IF b.tag = "Var" THEN unify_var_ty(b.n, a, cx, fuel - 1)
    ELSE IF a.tag = "Never" \/ b.tag = "Never" THEN Res("Ok", cx)
    ELSE Res("Mismatch", cx)

Unify(a, b, cx) == UnifyF(a, b, cx, MaxDepth)

(***************************************************************************)
(* The unifier as a state machine: a TyCtx of NumVars fresh slots, and one *)
(* action per unify call, over the kinds of UTypes.  A call that exhausts  *)
(* the stack ends the process.                                             *)
(***************************************************************************)
UTypes ==
    { Var(0), Var(1), AnyInt(0), AnyInt(1), TInt(32), TUInt(32),
      Type(Var(0)), Tuple(<<Type(Var(0))>>), Tuple(<<Var(0), TInt(32)>>),
      Tuple(<<Bool, Bool>>), Fn(<<>>, FALSE, Var(0)) }

NoCall == [a |-> Unit, b |-> Unit, res |-> "None"]

InitUnify ==
    /\ tcx = [v \in Slots |-> Unbound]
    /\ call = NoCall

UnifyCall(a, b) ==
    /\ call.res # "Overflow"
    /\ LET r == Unify(a, b, tcx)
       IN /\ tcx' = r.cx
          /\ call' = [a |-> a, b |-> b, res |-> r.res]
    /\ UNCHANGED <<cvars, pvars, nvars>>

\* the state of the stages that are not running
CheckIdle ==
    /\ cpc = "idle"
    /\ cur = 0
    /\ cres = "None"
    /\ asts = <<>>
    /\ binding_infos = <<>>
    /\ table = <<>>
    /\ diags = {}
    /\ checked = {}

ParseIdle ==
    /\ wmod = <<>>
    /\ wread = {}
    /\ wpc = <<>>
    /\ wres = <<>>
    /\ lock = 0
    /\ parsed_modules = {}
    /\ total_lines = 0
    /\ chan = <<>>
    /\ readable = {}

TopIdle ==
    /\ tparser = "none"
    /\ tokens = <<"Eof">>
    /\ current = 1
    /\ tbindings = <<>>
    /\ tdiags = <<>>
    /\ tres = "None"

ResolveIdle ==
    /\ rin = <<>>
    /\ rasts = <<>>
    /\ exports = <<>>
    /\ rpc = "idle"
    /\ rcur = 0

InterpIdle ==
    /\ constants = <<>>
    /\ globals = <<>>
    /\ bindings_to_globals = <<>>
    /\ evaluated_globals = <<>>
    /\ lowered = <<>>
    /\ start_code = <<>>
    /\ ipc = "idle"
    /\ iop = "none"
    /\ iret = <<>>

CallIdle ==
    /\ kparams = <<>>
    /\ kvarargs = "None"
    /\ kargs = <<>>
    /\ kpc = "idle"
    /\ kidx = 0
    /\ koffset = 0
    /\ kout = <<>>
    /\ kvar = <<>>
    /\ kres = "None"

PatternIdle ==
    /\ fpat = <<>>
    /\ fop = "idle"
    /\ fres = <<>>

LaterIdle == TopIdle /\ ResolveIdle /\ InterpIdle /\ CallIdle /\ PatternIdle

Init == InitUnify /\ CheckIdle /\ ParseIdle /\ LaterIdle

Next == \E a \in UTypes, b \in UTypes : UnifyCall(a, b)

Spec == Init /\ [][Next]_vars

(***************************************************************************)
(* Claims about the unifier's TyCtx (checked under Spec).                  *)
(***************************************************************************)
\* the slots reachable from the binding of slot v in one or more steps
RECURSIVE ReachFrom(_, _, _)
ReachFrom(S, cx, n) ==
    LET step == S \cup UNION {Refs(cx[w]) : w \in {x \in S : cx[x] # Unbound}}
    IN IF n = 0 \/ step = S THEN S ELSE ReachFrom(step, cx, n - 1)

Reaches(v, cx) == IF cx[v] = Unbound THEN {} ELSE ReachFrom(Refs(cx[v]), cx, NumVars)

\* C1: occurs invariant.  After any sequence of unify calls from an all-Unbound
\* TyCtx, following the Var / AnyInt / AnyFloat references of a bound slot
\* through its bound kind never comes back to that slot.
C1_OccursInvariant == \A v \in Slots : v \notin Reaches(v, tcx)

\* C2: occurs soundness.  If unify(Var(v), T) returned Ok and left v bound,
\* normalize(T) in the resulting TyCtx is a finite kind without Var(v).
\* (A call whose T normalizes to Var(v) itself binds nothing and is not held
\* against the claim.)
C2_OccursSoundness ==
    (call.res = "Ok" /\ call.a.tag = "Var" /\ tcx[call.a.n] # Unbound)
        => LET nt == Normalize(call.b, tcx)
           IN ~Overflowed(nt) /\ ~Appears(call.a.n, nt)

\* C3: bind-once.  No unify call changes a slot that is already Bound.
C3_BindOnce == [][\A v \in Slots : tcx[v] # Unbound => tcx'[v] = tcx[v]]_vars

\* C7: substitution idempotence.  In every TyCtx reachable by unify calls,
\* normalize yields a kind for every T and normalizing it again changes nothing.
C7_NormalizeIdempotent ==
    \A t \in UTypes :
        LET nt == Normalize(t, tcx)
        IN ~Overflowed(nt) /\ Normalize(nt, tcx) = nt

(***************************************************************************)
(* The unifier on closed kinds (no type variables): SpecClosed.            *)
(***************************************************************************)
ClosedTypes ==
    { Unit, Bool, Never, Str, TInt(32), TUInt(32), TFloat(64),
      Pointer(TInt(32), TRUE), Pointer(TInt(32), FALSE), Pointer(Bool, FALSE),
      MultiPointer(TInt(32), TRUE), MultiPointer(TInt(32), FALSE),
      Slice(TInt(32), TRUE), Slice(TInt(32), FALSE),
      Pointer(Pointer(TInt(32), TRUE), FALSE),
      Array(TInt(32), 2), Array(TInt(32), 3), Array(Bool, 2),
      Tuple(<<>>), Tuple(<<TInt(32), Bool>>), Tuple(<<Bool, Bool>>),
      Fn(<<>>, FALSE, Unit), Fn(<<TInt(32)>>, FALSE, Bool), Fn(<<TInt(32)>>, TRUE, Bool),
      Struct(1, "Struct", <<TInt(32), Bool>>), Struct(2, "Struct", <<TInt(32), Bool>>),
      Struct(3, "Union", <<TInt(32), Bool>>),
      Type(TInt(32)), Type(Type(Bool)) }

NextClosed == \E a \in ClosedTypes, b \in ClosedTypes : UnifyCall(a, b)

SpecClosed == Init /\ [][NextClosed]_vars

\* C4: unifier reflexivity.  For every closed kind T, unify(T, T) returns Ok.
C4_Reflexive == (call.res # "None" /\ call.a = call.b) => call.res = "Ok"

PointerLike == {"Pointer", "MultiPointer", "Slice"}

\* C5: direction of the pointer mutability coercion.  With the found pointer
\* the receiver and the expected pointer the argument, and equal element
\* kinds, a mutable found pointer is accepted where an immutable one is
\* expected, and an immutable found pointer is rejected with Mismatch where a
\* mutable one is expected (likewise MultiPointer and Slice).
C5_MutToImmutOnly ==
    (/\ call.a.tag \in PointerLike
     /\ call.a.tag = call.b.tag
     /\ call.a.kids = call.b.kids)
        => /\ (call.a.n = 1 /\ call.b.n = 0) => call.res = "Ok"
           /\ (call.a.n = 0 /\ call.b.n = 1) => call.res = "Mismatch"

\* C6: symmetry.  A call unify(A, B) returns Ok from a TyCtx exactly if
\* unify(B, A) returns Ok from that same TyCtx.
C6_Symmetric ==
    [][(call'.res = "Ok") <=> (Unify(call'.b, call'.a, tcx).res = "Ok")]_vars

(***************************************************************************)
(* check (chili_check/src/lib.rs 22-63).  The Asts are the input; an       *)
(* import or binding carries the outcome its check will have:              *)
(*   "ok"   the item checks, a binding's type variable gets bound;         *)
(*   "free" the binding checks but its type variable stays unbound;        *)
(*   "err"  the check returns a diagnostic.                                *)
(* Binding k of the workspace has BindingInfo k, created by resolve with   *)
(* the type Var(k).                                                        *)
(***************************************************************************)
NumAsts == 2
MaxImports == 1
MaxBindings == 2

SeqsUpTo(S, n) == UNION {[1 .. k -> S] : k \in 0 .. n}

AstInputs ==
    [imports : SeqsUpTo({"ok", "err"}, MaxImports),
     bindings : SeqsUpTo({"ok", "free", "err"}, MaxBindings)]

\* the number of bindings in the Asts before Ast i
RECURSIVE InfoBase(_, _)
InfoBase(as, i) == IF i <= 1 THEN 0 ELSE InfoBase(as, i - 1) + Len(as[i - 1].bindings)

\* the items of the inference loops (lib.rs 32-40), in loop order
RECURSIVE InferItems(_, _)
InferItems(as, i) ==
    IF i > Len(as) THEN <<>>
    ELSE [j \in 1 .. Len(as[i].imports) |->
              [kind |-> "import", ast |-> i, idx |-> j, info |-> 0]]
         \o [j \in 1 .. Len(as[i].bindings) |->
              [kind |-> "binding", ast |-> i, idx |-> j, info |-> InfoBase(as, i) + j]]
         \o InferItems(as, i + 1)

\* the bindings of the substitution loop (lib.rs 48-52), in loop order
BindingItems(as) == SelectSeq(InferItems(as, 1), LAMBDA it : it.kind = "binding")

HasVar(t) == \E v \in 0 .. (NumAsts * MaxBindings) : Appears(v, t)

\* substitute_ty (chili_infer::substitute is not part of the sources; from the
\* specification): Var(_) is replaced by its bound value, and a variable that
\* is still unbound is an error
Substitute(t, tbl) ==
    IF t.tag # "Var" THEN [ok |-> TRUE, ty |-> t]
    ELSE IF tbl[t.n] = Unbound THEN [ok |-> FALSE, ty |-> t]
    ELSE [ok |-> TRUE, ty |-> tbl[t.n]]

InitCheck ==
    /\ \E ins \in [1 .. NumAsts -> AstInputs] :
          /\ asts = [i \in 1 .. NumAsts |->
                      [imports |-> ins[i].imports,
                       bindings |-> [j \in 1 .. Len(ins[i].bindings) |->
                                       [outcome |-> ins[i].bindings[j],
                                        ty |-> Var(InfoBase(ins, i) + j)]]]]
          /\ binding_infos = [k \in 1 .. InfoBase(ins, NumAsts + 1) |-> [ty |-> Var(k)]]
          /\ table = [k \in 1 .. InfoBase(ins, NumAsts + 1) |-> Unbound]
    /\ cpc = "infer"
    /\ cur = 1
    /\ diags = {}
    /\ checked = {}
    /\ cres = "None"

\* leaving the inference loops: sess.init_scopes.pop_scope() and on to the
\* substitution pass
AfterItem(n, total) == IF n >= total THEN "subst_bindings" ELSE "infer"

Return(r) ==
    /\ cpc' = "done"
    /\ cres' = r

\* lib.rs 32-40 with no import and no binding at all
CheckNothing ==
    /\ cpc = "infer"
    /\ Len(InferItems(asts, 1)) = 0
    /\ cpc' = "subst_bindings"
    /\ UNCHANGED <<cur, asts, binding_infos, table, diags, checked, cres>>
    /\ UNCHANGED <<uvars, pvars, nvars>>

\* sess.check_import(import)?  (lib.rs 33-35)
CheckImport ==
    /\ cpc = "infer"
    /\ cur <= Len(InferItems(asts, 1))
    /\ LET it == InferItems(asts, 1)[cur]
       IN /\ it.kind = "import"
          /\ checked' = checked \cup {cur}
          /\ IF asts[it.ast].imports[it.idx] = "err"
             THEN /\ diags' = diags \cup {<<"check", cur>>}
                  /\ Return("Err")
                  /\ UNCHANGED cur
             ELSE /\ cur' = IF cur >= Len(InferItems(asts, 1)) THEN 1 ELSE cur + 1
                  /\ cpc' = AfterItem(cur, Len(InferItems(asts, 1)))
                  /\ UNCHANGED <<diags, cres>>
    /\ UNCHANGED <<asts, binding_infos, table>>
    /\ UNCHANGED <<uvars, pvars, nvars>>

\* sess.check_top_level_binding(binding, ..)?  (lib.rs 37-39)
CheckTopLevelBinding ==
    /\ cpc = "infer"
    /\ cur <= Len(InferItems(asts, 1))
    /\ LET it == InferItems(asts, 1)[cur]
       IN /\ it.kind = "binding"
          /\ checked' = checked \cup {cur}
          /\ IF asts[it.ast].bindings[it.idx].outcome = "err"
             THEN /\ diags' = diags \cup {<<"check", cur>>}
                  /\ Return("Err")
                  /\ UNCHANGED <<cur, table>>
             ELSE /\ table' = IF asts[it.ast].bindings[it.idx].outcome = "ok"
                              THEN [table EXCEPT ![it.info] = TInt(64)]
                              ELSE table
                  /\ cur' = IF cur >= Len(InferItems(asts, 1)) THEN 1 ELSE cur + 1
                  /\ cpc' = AfterItem(cur, Len(InferItems(asts, 1)))
                  /\ UNCHANGED <<diags, cres>>
    /\ UNCHANGED <<asts, binding_infos>>
    /\ UNCHANGED <<uvars, pvars, nvars>>

\* binding.substitute(table)?  (lib.rs 48-52): the binding is rewritten in place
SubstituteBinding ==
    /\ cpc = "subst_bindings"
    /\ cur <= Len(BindingItems(asts))
    /\ LET it == BindingItems(asts)[cur]
           r == Substitute(asts[it.ast].bindings[it.idx].ty, table)
       IN IF r.ok
          THEN /\ asts' = [asts EXCEPT ![it.ast].bindings[it.idx].ty = r.ty]
               /\ cur' = IF cur >= Len(BindingItems(asts)) THEN 1 ELSE cur + 1
               /\ cpc' = IF cur >= Len(BindingItems(asts)) THEN "subst_infos" ELSE cpc
               /\ UNCHANGED <<diags, cres>>
          ELSE /\ diags' = diags \cup {<<"substitute", cur>>}
               /\ Return("Err")
               /\ UNCHANGED <<asts, cur>>
    /\ UNCHANGED <<binding_infos, table, checked>>
    /\ UNCHANGED <<uvars, pvars, nvars>>

\* substitute_ty(&binding_info.ty, table, binding_info.span)?;  (lib.rs 54-56):
\* the substituted type is the value of the expression statement and is
\* dropped; binding_info is only borrowed
SubstituteInfo ==
    /\ cpc = "subst_infos"
    /\ cur <= Len(binding_infos)
    /\ LET r == Substitute(binding_infos[cur].ty, table)
       IN IF r.ok
          THEN /\ cur' = cur + 1
               /\ UNCHANGED <<cpc, diags, cres>>
          ELSE /\ diags' = diags \cup {<<"substitute_ty", cur>>}
               /\ Return("Err")
               /\ UNCHANGED cur
    /\ UNCHANGED <<asts, binding_infos, table, checked>>
    /\ UNCHANGED <<uvars, pvars, nvars>>

\* the loops are over: Ok(())  (lib.rs 58-62)
CheckReturnOk ==
    /\ \/ cpc = "subst_bindings" /\ Len(BindingItems(asts)) = 0
       \/ cpc = "subst_infos" /\ cur > Len(binding_infos)
    /\ Return("Ok")
    /\ UNCHANGED <<cur, asts, binding_infos, table, diags, checked>>
    /\ UNCHANGED <<uvars, pvars, nvars>>

NextCheck ==
    \/ CheckNothing
    \/ CheckImport
    \/ CheckTopLevelBinding
    \/ SubstituteBinding
    \/ SubstituteInfo
    \/ CheckReturnOk

InitCheckStage == InitCheck /\ InitUnify /\ ParseIdle /\ LaterIdle

SpecCheck == InitCheckStage /\ [][NextCheck]_vars

\* C8: after check() returns Ok, the ty of every BindingInfo is fully
\* substituted: it contains no Var(_) node.
C8_InfosSubstituted ==
    (cpc = "done" /\ cres = "Ok")
        => \A k \in 1 .. Len(binding_infos) : ~HasVar(binding_infos[k].ty)

\* C9: check recovery.  When check() is over, every import and binding of
\* every Ast was checked, and the error of every failing one was reported.
C9_CheckContinues ==
    cpc = "done"
        => /\ checked = 1 .. Len(InferItems(asts, 1))
           /\ \A n \in 1 .. Len(InferItems(asts, 1)) :
                 LET it == InferItems(asts, 1)[n]
                 IN (IF it.kind = "import"
                     THEN asts[it.ast].imports[it.idx] = "err"
                     ELSE asts[it.ast].bindings[it.idx].outcome = "err")
                        => <<"check", n>> \in diags

(***************************************************************************)
(* The parse driver (chili_parse/src/lib.rs 97-206): NumWorkers closures   *)
(* queued by spawn_parser, each for one of the modules, sharing the        *)
(* ParserCache behind one mutex and one channel.                           *)
(***************************************************************************)
NumWorkers == 3
NumModules == 2

Workers == 1 .. NumWorkers
Modules == 1 .. NumModules

\* source.lines().count() of module m's file
Lines(m) == m + 1

InitParse ==
    /\ wmod \in [Workers -> Modules]
    /\ readable \in SUBSET Modules
    /\ wpc = [w \in Workers |-> "spawned"]
    /\ wres = [w \in Workers |-> "None"]
    /\ wread = {}
    /\ lock = 0
    /\ parsed_modules = {}
    /\ total_lines = 0
    /\ chan = <<>>

\* let mut cache = self.cache.lock();  (lib.rs 165)
Acquire(w) ==
    /\ wpc[w] = "spawned"
    /\ lock = 0
    /\ lock' = w
    /\ wpc' = [wpc EXCEPT ![w] = "insert"]
    /\ UNCHANGED <<wmod, wres, parsed_modules, total_lines, chan, readable, wread>>
    /\ UNCHANGED <<uvars, cvars, nvars>>

\* if !cache.parsed_modules.insert(self.module_info) { return AlreadyParsed }
\* (lib.rs 167-169); the guard is dropped on return
Insert(w) ==
    /\ wpc[w] = "insert"
    /\ IF wmod[w] \in parsed_modules
       THEN /\ wres' = [wres EXCEPT ![w] = "AlreadyParsed"]
            /\ wpc' = [wpc EXCEPT ![w] = "send"]
            /\ lock' = 0
            /\ UNCHANGED parsed_modules
       ELSE /\ parsed_modules' = parsed_modules \cup {wmod[w]}
            /\ wpc' = [wpc EXCEPT ![w] = "read"]
            /\ UNCHANGED <<wres, lock>>
    /\ UNCHANGED <<wmod, total_lines, chan, readable, wread>>
    /\ UNCHANGED <<uvars, cvars, nvars>>

\* std::fs::read_to_string(..).unwrap_or_else(|_| panic!(..))  (lib.rs 170-171);
\* the panic unwinds the closure: the guard and the Sender are dropped
Read(w) ==
    /\ wpc[w] = "read"
    /\ wread' = wread \cup {w}
    /\ IF wmod[w] \in readable
       THEN /\ wpc' = [wpc EXCEPT ![w] = "count"]
            /\ UNCHANGED lock
       ELSE /\ wpc' = [wpc EXCEPT ![w] = "panicked"]
            /\ lock' = 0
    /\ UNCHANGED <<wmod, wres, parsed_modules, total_lines, chan, readable>>
    /\ UNCHANGED <<uvars, cvars, nvars>>

\* cache.total_lines += ..; cache.diagnostics.add_file(..); the block ends and
\* the guard is dropped  (lib.rs 173-181)
Count(w) ==
    /\ wpc[w] = "count"
    /\ total_lines' = total_lines + Lines(wmod[w])
    /\ lock' = 0
    /\ wpc' = [wpc EXCEPT ![w] = "lex"]
    /\ UNCHANGED <<wmod, wres, parsed_modules, chan, readable, wread>>
    /\ UNCHANGED <<uvars, cvars, nvars>>

\* Lexer::new(file_id, &source).scan()  (lib.rs 183-185, 204)
Lex(w) ==
    /\ wpc[w] = "lex"
    /\ \E ok \in BOOLEAN :
          IF ok
          THEN /\ wpc' = [wpc EXCEPT ![w] = "parse"]
               /\ UNCHANGED wres
          ELSE /\ wpc' = [wpc EXCEPT ![w] = "send"]
               /\ wres' = [wres EXCEPT ![w] = "Failed"]
    /\ UNCHANGED <<wmod, lock, parsed_modules, total_lines, chan, readable, wread>>
    /\ UNCHANGED <<uvars, cvars, nvars>>

\* the top-level loop  (lib.rs 187-202)
ParseTopLevels(w) ==
    /\ wpc[w] = "parse"
    /\ \E r \in {"NewAst", "Failed"} : wres' = [wres EXCEPT ![w] = r]
    /\ wpc' = [wpc EXCEPT ![w] = "send"]
    /\ UNCHANGED <<wmod, lock, parsed_modules, total_lines, chan, readable, wread>>
    /\ UNCHANGED <<uvars, cvars, nvars>>

\* self.tx.send(Box::new(result)).unwrap()  (lib.rs 158-161)
Send(w) ==
    /\ wpc[w] = "send"
    /\ chan' = Append(chan, [from |-> w, result |-> wres[w]])
    /\ wpc' = [wpc EXCEPT ![w] = "done"]
    /\ UNCHANGED <<wmod, wres, lock, parsed_modules, total_lines, readable, wread>>
    /\ UNCHANGED <<uvars, cvars, nvars>>

NextParse ==
    \E w \in Workers :
        \/ Acquire(w)
        \/ Insert(w)
        \/ Read(w)
        \/ Count(w)
        \/ Lex(w)
        \/ ParseTopLevels(w)
        \/ Send(w)

InitParseStage == InitParse /\ InitUnify /\ CheckIdle /\ LaterIdle

SpecParse == InitParseStage /\ [][NextParse]_vars

RECURSIVE SumLines(_)
SumLines(S) ==
    IF S = {} THEN 0
    ELSE LET m == CHOOSE x \in S : TRUE IN Lines(m) + SumLines(S \ {m})

WorkersOf(m) == {w \in Workers : wmod[w] = m}

Finished(w) == wpc[w] \in {"done", "panicked"}

\* C10: parse deduplication.  Once the workers spawned for a module are all
\* finished, exactly one of them passed the parsed_modules insertion and
\* produced NewAst or Failed, every other one returned AlreadyParsed without
\* reading the file, and the file's lines were added to total_lines once.
C10_ParseOnce ==
    (\A w \in Workers : Finished(w))
        => /\ \A m \in Modules :
                WorkersOf(m) # {}
                    => \E p \in WorkersOf(m) :
                          /\ wres[p] \in {"NewAst", "Failed"}
                          /\ \A o \in WorkersOf(m) \ {p} :
                                wres[o] = "AlreadyParsed" /\ o \notin wread
           /\ total_lines = SumLines({wmod[w] : w \in Workers})

\* C11: no worker holds the ParserCache lock while it reads the module's
\* source file or while it lexes and parses it.
C11_NoLockDuringIO ==
    \A w \in Workers : wpc[w] \in {"read", "lex", "parse"} => lock # w

\* the pool runs every queued closure and a closure that can take a step
\* takes it: the parse stage does not stop while a worker can move
SpecParseFair == SpecParse /\ WF_vars(NextParse)

Sent(w) == Cardinality({i \in DOMAIN chan : chan[i].from = w})

\* C12: every spawned worker eventually sends exactly one ParserResult on
\* the channel, also when its module's file cannot be read or lexing fails.
C12_EventuallySends == <>[](\A w \in Workers : Sent(w) = 1)

(***************************************************************************)
(* The top-level parse loop of one module, in its two drivers: the loop of *)
(* Parser::parse_inner (chili_parse/src/lib.rs 183-205) and                *)
(* Parser::parse_all_top_level (parse/top_level.rs 7-32).  A token is one  *)
(* of: "Let" (a whole well-formed binding), "LetErr" (a `let` whose        *)
(* binding fails to parse after the keyword was eaten), "Bad" (a token     *)
(* that starts no item), "Semi" and the final "Eof".                       *)
(***************************************************************************)
MaxTokens == 4

TokenKinds == {"Let", "LetErr", "Bad", "Semi"}

TokenInputs == {Append(t, "Eof") : t \in SeqsUpTo(TokenKinds, MaxTokens)}

peek(toks, c) == toks[c]

is_end(toks, c) == peek(toks, c) = "Eof"

\* a bump that does not look at the end of the file
bump_unguarded(toks, c) == c + 1

\* bump  (lib.rs 229-234)
bump(toks, c) == IF is_end(toks, c) THEN c ELSE c + 1

\* eat!(self, Let) then the binding, or the final Err branch which eats nothing
parse_top_level(toks, c) ==
    CASE peek(toks, c) = "Let"    -> [ok |-> TRUE, cur |-> c + 1]
      [] peek(toks, c) = "LetErr" -> [ok |-> FALSE, cur |-> c + 1]
      [] OTHER                    -> [ok |-> FALSE, cur |-> c]

\* require!(self, Semicolon, ";")
require_semicolon(toks, c) ==
    IF peek(toks, c) = "Semi" THEN [ok |-> TRUE, cur |-> c + 1]
    ELSE [ok |-> FALSE, cur |-> c]

RECURSIVE skip_semicolons(_, _)
skip_semicolons(toks, c) ==
    IF peek(toks, c) = "Semi" THEN skip_semicolons(toks, bump(toks, c)) ELSE c

\* skips to the next top-level semicolon (or the end of the file)
RECURSIVE skip_until_recovery_point(_, _)
skip_until_recovery_point(toks, c) ==
    IF peek(toks, c) \in {"Semi", "Eof"} THEN c
    ELSE skip_until_recovery_point(toks, bump(toks, c))

InitTop ==
    /\ tparser \in {"parse_inner", "parse_all_top_level"}
    /\ tokens \in TokenInputs
    /\ current = 1
    /\ tbindings = <<>>
    /\ tdiags = <<>>
    /\ tres = "None"

\* one iteration of `while !self.is_end()` in parse_inner  (lib.rs 189-200)
ParseInnerIter ==
    /\ tparser = "parse_inner" /\ tres = "None"
    /\ ~is_end(tokens, current)
    /\ LET r == parse_top_level(tokens, current)
           q == require_semicolon(tokens, r.cur)
       IN IF ~r.ok
          THEN /\ tres' = "Failed"
               /\ tdiags' = Append(tdiags, current)
               /\ current' = r.cur
               /\ UNCHANGED tbindings
          ELSE /\ tbindings' = Append(tbindings, current)
               /\ IF ~q.ok
                  THEN /\ tres' = "Failed"
                       /\ tdiags' = Append(tdiags, r.cur)
                       /\ current' = q.cur
                  ELSE /\ current' = skip_semicolons(tokens, q.cur)
                       /\ UNCHANGED <<tres, tdiags>>
    /\ UNCHANGED <<tparser, tokens>>
    /\ UNCHANGED <<uvars, cvars, pvars, rvars, ivars, kvars, fvars>>

\* ParserResult::NewAst(ast)  (lib.rs 202)
ParseInnerEnd ==
    /\ tparser = "parse_inner" /\ tres = "None"
    /\ is_end(tokens, current)
    /\ tres' = "NewAst"
    /\ UNCHANGED <<tparser, tokens, current, tbindings, tdiags>>
    /\ UNCHANGED <<uvars, cvars, pvars, rvars, ivars, kvars, fvars>>

\* one iteration of `while !self.is_end()` in parse_all_top_level
\* (top_level.rs 10-29)
ParseAllTopLevelIter ==
    /\ tparser = "parse_all_top_level" /\ tres = "None"
    /\ ~is_end(tokens, current)
    /\ LET r == parse_top_level(tokens, current)
           q == require_semicolon(tokens, r.cur)
       IN IF ~r.ok
          THEN /\ tdiags' = Append(tdiags, current)
               /\ current' = skip_semicolons(tokens,
                                 skip_until_recovery_point(tokens, r.cur))
               /\ UNCHANGED tbindings
          ELSE /\ tbindings' = Append(tbindings, current)
               /\ IF ~q.ok
                  THEN /\ tdiags' = Append(tdiags, r.cur)
                       /\ current' = skip_semicolons(tokens,
                                         skip_until_recovery_point(tokens, q.cur))
                  ELSE /\ current' = skip_semicolons(tokens, q.cur)
                       /\ UNCHANGED tdiags
    /\ UNCHANGED <<tparser, tokens, tres>>
    /\ UNCHANGED <<uvars, cvars, pvars, rvars, ivars, kvars, fvars>>

\* ParserResult::NewAst(module)  (top_level.rs 31)
ParseAllTopLevelEnd ==
    /\ tparser = "parse_all_top_level" /\ tres = "None"
    /\ is_end(tokens, current)
    /\ tres' = "NewAst"
    /\ UNCHANGED <<tparser, tokens, current, tbindings, tdiags>>
    /\ UNCHANGED <<uvars, cvars, pvars, rvars, ivars, kvars, fvars>>

NextTop ==
    \/ ParseInnerIter
    \/ ParseInnerEnd
    \/ ParseAllTopLevelIter
    \/ ParseAllTopLevelEnd

InitTopStage ==
    InitTop /\ InitUnify /\ CheckIdle /\ ParseIdle /\ ResolveIdle /\ InterpIdle
    /\ CallIdle /\ PatternIdle

SpecTop == InitTopStage /\ [][NextTop]_vars

\* an item starts at the beginning of the file or after a top-level semicolon
ItemStart(i) == i = 1 \/ tokens[i - 1] = "Semi"

Range(f) == {f[i] : i \in DOMAIN f}

\* C13: parse recovery.  When the parse of a module has ended, its result is
\* NewAst, every well-formed item that starts the file or follows a top-level
\* semicolon is in the module, also after an earlier item with a syntax error
\* or a missing `;`, and a diagnostic was recorded for every failed item.
C13_ParseRecovers ==
    tres # "None"
        => /\ tres = "NewAst"
           /\ \A i \in DOMAIN tokens :
                 (tokens[i] = "Let" /\ ItemStart(i)) => i \in Range(tbindings)
           /\ \A i \in DOMAIN tokens :
                 (tokens[i] \in {"LetErr", "Bad"} /\ ItemStart(i))
                     => i \in Range(tdiags)

(***************************************************************************)
(* The resolve passes of chili_resolve/src/import.rs over two Asts: the    *)
(* Ast of module 1, whose imports name module 2, and the Ast of module 2.  *)
(* An import path is the sequence of its nodes: "Glob" for the Glob node,  *)
(* the symbol for a Symbol node.  A span is the pair <<module, index>> of  *)
(* the item; a binding id is unique to its item.                           *)
(***************************************************************************)
MaxRImports == 3
MaxRBindings == 2

Symbols == {"a", "b"}

is_public(visibility) == visibility = "Public"

Import(target, alias, last, visibility, span, id) ==
    [module_id |-> target, alias |-> alias, import_path |-> <<"mod", last>>,
     visibility |-> visibility, span |-> span, binding_info_id |-> id]

SymbolPattern(kind, symbol, id) ==
    [kind |-> kind, symbol |-> symbol, binding_info_id |-> id]

Binding(visibility, pattern) == [visibility |-> visibility, pattern |-> pattern]

\* the kinds of import the Ast of module 1 is built from
ImportKinds ==
    { [alias |-> "", last |-> "Glob", visibility |-> "Private"],
      [alias |-> "", last |-> "Glob", visibility |-> "Public"],
      [alias |-> "a", last |-> "a", visibility |-> "Private"] }

\* the imports the Ast of module 2 may have
TargetImportKinds ==
    { <<>>,
      <<[alias |-> "a", last |-> "a", visibility |-> "Public"]>>,
      <<[alias |-> "", last |-> "Glob", visibility |-> "Public"]>> }

BindingKinds ==
    { [visibility |-> "Public", kind |-> "Single", symbol |-> "a"],
      [visibility |-> "Public", kind |-> "Single", symbol |-> "b"],
      [visibility |-> "Private", kind |-> "Single", symbol |-> "a"],
      [visibility |-> "Public", kind |-> "StructDestructor", symbol |-> ""],
      [visibility |-> "Public", kind |-> "TupleDestructor", symbol |-> ""] }

\* the Ast of module m importing from module target; the id of an item is
\* its position in the workspace's binding infos
MakeAst(m, target, iks, bks) ==
    [module_id |-> m,
     imports |-> [i \in DOMAIN iks |->
                    Import(target, iks[i].alias, iks[i].last, iks[i].visibility,
                           <<m, i>>, 100 * m + i)],
     bindings |-> [i \in DOMAIN bks |->
                    Binding(bks[i].visibility,
                            SymbolPattern(bks[i].kind, bks[i].symbol,
                                          100 * m + 50 + i))]]

AstListInputs ==
    { <<MakeAst(1, 2, iks, <<>>), MakeAst(2, 1, tks, bks)>> :
        iks \in SeqsUpTo(ImportKinds, MaxRImports),
        tks \in TargetImportKinds,
        bks \in SeqsUpTo(BindingKinds, MaxRBindings) }

EmptyMap == [x \in {} |-> 0]

\* HashMap::insert: a later insertion under the same key replaces the entry
Put(f, k, v) == [x \in DOMAIN f \cup {k} |-> IF x = k THEN v ELSE f[x]]

\* Pattern::into_single: the SymbolPattern, or a panic
into_single(pattern) ==
    IF pattern.kind = "Single" THEN [ok |-> TRUE, pat |-> pattern]
    ELSE [ok |-> FALSE, pat |-> pattern]

\* a collection that exports every import, whatever its visibility
RECURSIVE insert_imports_all(_, _, _)
insert_imports_all(entry, imports, k) ==
    IF k > Len(imports) THEN entry
    ELSE insert_imports_all(
             Put(entry, imports[k].alias, imports[k].binding_info_id),
             imports, k + 1)

\* for import in ast.imports.iter()  (import.rs 11-15)
RECURSIVE insert_imports(_, _, _)
insert_imports(entry, imports, k) ==
    IF k > Len(imports) THEN entry
    ELSE insert_imports(
             IF is_public(imports[k].visibility)
             THEN Put(entry, imports[k].alias, imports[k].binding_info_id)
             ELSE entry,
             imports, k + 1)

\* for binding in ast.bindings.iter()  (import.rs 17-23); a panic of
\* into_single ends the loop with what was inserted before it
RECURSIVE insert_bindings(_, _, _)
insert_bindings(entry, bindings, k) ==
    IF k > Len(bindings) THEN [entry |-> entry, panicked |-> FALSE]
    ELSE IF ~is_public(bindings[k].visibility)
         THEN insert_bindings(entry, bindings, k + 1)
         ELSE LET r == into_single(bindings[k].pattern)
              IN IF ~r.ok THEN [entry |-> entry, panicked |-> TRUE]
                 ELSE insert_bindings(
                          Put(entry, r.pat.symbol, r.pat.binding_info_id),
                          bindings, k + 1)

\* collect_module_exports from the k-th Ast on  (import.rs 7-25)
RECURSIVE collect_module_exports(_, _, _)
collect_module_exports(as, ex, k) ==
    IF k > Len(as) THEN [exports |-> ex, panicked |-> FALSE]
    ELSE LET m == as[k].module_id
             entry == IF m \in DOMAIN ex THEN ex[m] ELSE EmptyMap
             r == insert_bindings(insert_imports(entry, as[k].imports, 1),
                                  as[k].bindings, 1)
             ex1 == Put(ex, m, r.entry)
         IN IF r.panicked THEN [exports |-> ex1, panicked |-> TRUE]
            ELSE collect_module_exports(as, ex1, k + 1)

\* Import::is_glob: the final path node is Glob
is_glob(import) == import.import_path[Len(import.import_path)] = "Glob"

Perms(S) ==
    {p \in [1 .. Cardinality(S) -> S] : \A i, j \in DOMAIN p : p[i] = p[j] => i = j}

\* the orders in which the export maps can be iterated, one per module
IterOrders(ex) ==
    {o \in [DOMAIN ex -> UNION {Perms(DOMAIN ex[m]) : m \in DOMAIN ex}] :
        \A m \in DOMAIN ex : o[m] \in Perms(DOMAIN ex[m])}

\* an expansion that keeps the path of the glob import
expanded_import_same_path(import, symbol) == [import EXCEPT !.alias = symbol]

\* the import expand_glob_import builds for one exported symbol
\* (import.rs 63-80)
expanded_import(import, symbol) ==
    [import EXCEPT
        !.alias = symbol,
        !.import_path =
            Append(SubSeq(import.import_path, 1, Len(import.import_path) - 1),
                   symbol)]

\* expand_glob_import, the target's exports iterated in order ord
\* (import.rs 51-82)
expand_glob_import(import, ord) ==
    [i \in DOMAIN ord[import.module_id] |->
        expanded_import(import, ord[import.module_id][i])]

\* the first loop of expand_and_replace_glob_imports from index k on
\* (import.rs 31-40)
RECURSIVE glob_scan(_, _, _)
glob_scan(imports, ord, k) ==
    IF k > Len(imports) THEN [to_remove |-> <<>>, to_add |-> <<>>]
    ELSE LET rest == glob_scan(imports, ord, k + 1)
         IN IF ~is_glob(imports[k]) THEN rest
            ELSE [to_remove |-> <<k>> \o rest.to_remove,
                  to_add |-> expand_glob_import(imports[k], ord) \o rest.to_add]

\* Vec::remove at the 1-based index i
Remove(s, i) == SubSeq(s, 1, i - 1) \o SubSeq(s, i + 1, Len(s))

\* a removal loop that does not shift the recorded indices
RECURSIVE remove_globs_unshifted(_, _, _, _)
remove_globs_unshifted(imports, to_remove, k, removed) ==
    IF k > Len(to_remove) THEN imports
    ELSE remove_globs_unshifted(
             IF to_remove[k] <= Len(imports) THEN Remove(imports, to_remove[k])
             ELSE imports,
             to_remove, k + 1, removed + 1)

\* the second loop  (import.rs 42-46)
RECURSIVE remove_globs(_, _, _, _)
remove_globs(imports, to_remove, k, removed) ==
    IF k > Len(to_remove) THEN imports
    ELSE remove_globs(Remove(imports, to_remove[k] - removed),
                      to_remove, k + 1, removed + 1)

\* expand_and_replace_glob_imports  (import.rs 27-49)
expand_and_replace_glob_imports(imports, ord) ==
    LET scan == glob_scan(imports, ord, 1)
    IN remove_globs(imports, scan.to_remove, 1, 0) \o scan.to_add

InitResolve ==
    /\ rin \in AstListInputs
    /\ rasts = rin
    /\ exports = <<>>
    /\ rpc = "collect"
    /\ rcur = 1

\* collect_module_exports(&asts, &mut exports)
CollectModuleExports ==
    /\ rpc = "collect"
    /\ LET r == collect_module_exports(rasts, exports, 1)
       IN /\ exports' = r.exports
          /\ rpc' = IF r.panicked THEN "panicked" ELSE "expand"
    /\ UNCHANGED <<rin, rasts, rcur>>
    /\ UNCHANGED <<uvars, cvars, pvars, tvars, ivars, kvars, fvars>>

\* expand_and_replace_glob_imports(&mut ast.imports, &exports) for the next
\* Ast; exports.get(..).unwrap() panics for a module with no export entry
ExpandGlobImports ==
    /\ rpc = "expand"
    /\ IF \E i \in DOMAIN rasts[rcur].imports :
            /\ is_glob(rasts[rcur].imports[i])
            /\ rasts[rcur].imports[i].module_id \notin DOMAIN exports
       THEN /\ rpc' = "panicked"
            /\ UNCHANGED <<rasts, rcur>>
       ELSE /\ \E ord \in IterOrders(exports) :
                 rasts' = [rasts EXCEPT ![rcur].imports =
                             expand_and_replace_glob_imports(@, ord)]
            /\ rcur' = rcur + 1
            /\ rpc' = IF rcur = Len(rasts) THEN "done" ELSE "expand"
    /\ UNCHANGED <<rin, exports>>
    /\ UNCHANGED <<uvars, cvars, pvars, tvars, ivars, kvars, fvars>>

NextResolve ==
    \/ CollectModuleExports
    \/ ExpandGlobImports

InitResolveStage ==
    InitResolve /\ InitUnify /\ CheckIdle /\ ParseIdle /\ TopIdle /\ InterpIdle
    /\ CallIdle /\ PatternIdle

SpecResolve == InitResolveStage /\ [][NextResolve]_vars

\* the BindingInfo of every top-level item: its id, the module that declares
\* it and its visibility
BindingInfos ==
    UNION {
        {[id |-> rin[a].imports[i].binding_info_id,
          module_id |-> rin[a].module_id,
          visibility |-> rin[a].imports[i].visibility] :
            i \in DOMAIN rin[a].imports}
        \cup
        {[id |-> rin[a].bindings[i].pattern.binding_info_id,
          module_id |-> rin[a].module_id,
          visibility |-> rin[a].bindings[i].visibility] :
            i \in DOMAIN rin[a].bindings}
        : a \in DOMAIN rin }

\* C14: export purity.  Every entry of ModuleExports[m], the entries of
\* public imports included, references a binding that module m declares and
\* whose visibility is Public.
C14_ExportPurity ==
    \A m \in DOMAIN exports :
        \A sym \in DOMAIN exports[m] :
            \E info \in BindingInfos :
                /\ info.id = exports[m][sym]
                /\ info.module_id = m
                /\ info.visibility = "Public"

\* the exports were collected and hold the entry of a public import and the
\* entry of a public binding, in a module that also has a private item
C14_Witness ==
    /\ rpc = "done"
    /\ \E i \in DOMAIN rin[2].imports :
          /\ is_public(rin[2].imports[i].visibility)
          /\ exports[2][rin[2].imports[i].alias] = rin[2].imports[i].binding_info_id
    /\ \E i \in DOMAIN rin[2].bindings :
          /\ is_public(rin[2].bindings[i].visibility)
          /\ exports[2][rin[2].bindings[i].pattern.symbol]
                = rin[2].bindings[i].pattern.binding_info_id
    /\ \E i \in DOMAIN rin[2].bindings : ~is_public(rin[2].bindings[i].visibility)
    /\ \E i \in DOMAIN rin[1].imports : ~is_public(rin[1].imports[i].visibility)

\* C15: after collect_module_exports every public top-level binding is in
\* its module's export map under exactly one symbol, also when two public
\* items of the module carry the same symbol.
C15_ExportedOnce ==
    rpc \in {"expand", "done"}
        => \A a \in DOMAIN rin :
              \A i \in DOMAIN rin[a].bindings :
                 is_public(rin[a].bindings[i].visibility)
                    => Cardinality(
                          {sym \in DOMAIN exports[rin[a].module_id] :
                              exports[rin[a].module_id][sym]
                                 = rin[a].bindings[i].pattern.binding_info_id}) = 1

\* C16: a public binding with a StructDestructor or TupleDestructor pattern
\* is ignored by export collection: the collection completes normally and
\* the public Single bindings of every Ast are exported.
C16_DestructorIgnored ==
    rpc # "collect"
        => /\ rpc # "panicked"
           /\ \A a \in DOMAIN rin :
                 \A i \in DOMAIN rin[a].bindings :
                    (/\ is_public(rin[a].bindings[i].visibility)
                     /\ rin[a].bindings[i].pattern.kind = "Single")
                        => /\ rin[a].module_id \in DOMAIN exports
                           /\ rin[a].bindings[i].pattern.symbol
                                 \in DOMAIN exports[rin[a].module_id]

\* the Asts whose imports were expanded
Expanded == IF rpc \in {"expand", "done"} THEN 1 .. (rcur - 1) ELSE {}

\* C17: glob expansion.  In an Ast whose imports were expanded no import is a
\* glob, and for every glob import g of the input and the symbols E its
\* target module exports there is exactly one import per symbol of E that
\* carries the span of g, with the symbol as alias and as final path node and
\* with the visibility and module id of g; nothing else carries the span of g
\* (for an empty E the glob is removed).  The other imports are kept.
C17_GlobExpansion ==
    \A a \in Expanded :
        LET in == rin[a].imports
            out == rasts[a].imports
        IN /\ \A k \in DOMAIN out : ~is_glob(out[k])
           /\ \A j \in DOMAIN in :
                 IF is_glob(in[j])
                 THEN LET E == DOMAIN exports[in[j].module_id]
                          from_g == {k \in DOMAIN out : out[k].span = in[j].span}
                      IN /\ \A sym \in E :
                               Cardinality({k \in from_g : out[k].alias = sym}) = 1
                         /\ \A k \in from_g :
                               /\ out[k].alias \in E
                               /\ out[k].import_path[Len(out[k].import_path)]
                                     = out[k].alias
                               /\ out[k].visibility = in[j].visibility
                               /\ out[k].module_id = in[j].module_id
                 ELSE \E k \in DOMAIN out : out[k] = in[j]

\* two globs around a plain import were expanded over two exported symbols
C17_Witness ==
    /\ rpc = "done"
    /\ Len(rin[1].imports) = 3
    /\ is_glob(rin[1].imports[1])
    /\ ~is_glob(rin[1].imports[2])
    /\ is_glob(rin[1].imports[3])
    /\ Cardinality(DOMAIN exports[2]) = 2
    /\ Len(rasts[1].imports) = 5

(***************************************************************************)
(* The interpreter session of chili_interp/src/interp.rs: the constants    *)
(* pool, the globals and the init prologue of eval.  A Value is a record   *)
(* [tag, n, code]; an Instruction is a record [op, arg].  Slots are        *)
(* 0-based as in the source: slot k is element k + 1 of the sequence.      *)
(***************************************************************************)
NumGlobals == 2     \* binding ids of global bindings
MaxCode == 2        \* instructions lowered before Halt
MaxEvaluated == 2   \* entries of evaluated_globals

GlobalIds == 1 .. NumGlobals

VUnit == [tag |-> "Unit", n |-> 0, code |-> <<>>]
VInt(k) == [tag |-> "Int", n |-> k, code |-> <<>>]
\* Function { name: global_init_<index>, arg_types: vec![], code }
VFunction(index, code) == [tag |-> "Function", n |-> index, code |-> code]

IPushConst(slot) == [op |-> "PushConst", arg |-> slot]
ICall(n) == [op |-> "Call", arg |-> n]
IHalt == [op |-> "Halt", arg |-> 0]
ISetGlobal(slot) == [op |-> "SetGlobal", arg |-> slot]

ConstValues == {VUnit, VInt(1)}

\* a push_const_unit that pushes a new Unit constant
push_const_unit_fresh(cs, code) ==
    [constants |-> Append(cs, VUnit), code |-> Append(code, IPushConst(Len(cs)))]

\* a prologue that reads the slot after the constant was pushed
RECURSIVE init_loop_late_slot(_, _, _, _)
init_loop_late_slot(cs, evaluated, k, init_instructions) ==
    IF k > Len(evaluated)
    THEN [constants |-> cs, init_instructions |-> init_instructions]
    ELSE init_loop_late_slot(
             Append(cs, VFunction(evaluated[k][1], evaluated[k][2])),
             evaluated, k + 1,
             init_instructions \o <<IPushConst(Len(cs) + 1), ICall(0)>>)

\* push_const  (interp.rs 153-158)
push_const(cs, code, value) ==
    [constants |-> Append(cs, value),
     code |-> Append(code, IPushConst(Len(cs))),
     slot |-> Len(cs)]

\* push_const_unit  (interp.rs 160-164)
push_const_unit(cs, code) ==
    [constants |-> cs, code |-> Append(code, IPushConst(0))]

\* an insert that takes a new slot also for an id that has one
insert_global_fresh(gs, b2g, id, value) ==
    [globals |-> Append(gs, value),
     bindings_to_globals |-> Put(b2g, id, Len(gs)), slot |-> Len(gs)]

\* insert_global  (interp.rs 166-176)
insert_global(gs, b2g, id, value) ==
    IF id \in DOMAIN b2g
    THEN [globals |-> [gs EXCEPT ![b2g[id] + 1] = value],
          bindings_to_globals |-> b2g, slot |-> b2g[id]]
    ELSE [globals |-> Append(gs, value),
          bindings_to_globals |-> Put(b2g, id, Len(gs)), slot |-> Len(gs)]

\* get_global  (interp.rs 178-180): Some(slot) is <<slot>>, None is <<>>
get_global(b2g, id) == IF id \in DOMAIN b2g THEN <<b2g[id]>> ELSE <<>>

\* the loop of insert_init_instructions from the k-th entry on
\* (interp.rs 128-139)
RECURSIVE init_loop(_, _, _, _)
init_loop(cs, evaluated, k, init_instructions) ==
    IF k > Len(evaluated)
    THEN [constants |-> cs, init_instructions |-> init_instructions]
    ELSE init_loop(
             Append(cs, VFunction(evaluated[k][1], evaluated[k][2])),
             evaluated, k + 1,
             init_instructions \o <<IPushConst(Len(cs)), ICall(0)>>)

\* insert_init_instructions  (interp.rs 125-147)
insert_init_instructions(cs, evaluated, code) ==
    LET r == init_loop(cs, evaluated, 1, <<>>)
    IN [constants |-> r.constants, code |-> r.init_instructions \o code]

\* Interp::new and create_session, then eval up to the lowering
InitInterp ==
    /\ constants = <<VUnit>>
    /\ globals = <<>>
    /\ bindings_to_globals = EmptyMap
    /\ evaluated_globals = <<>>
    /\ lowered = <<>>
    /\ start_code = <<>>
    /\ ipc = "lower"
    /\ iop = "new"
    /\ iret = <<>>

\* the lowering pushes a constant
PushConst(value) ==
    /\ ipc = "lower" /\ Len(lowered) < MaxCode
    /\ LET r == push_const(constants, lowered, value)
       IN /\ constants' = r.constants
          /\ lowered' = r.code
    /\ iop' = "push_const"
    /\ UNCHANGED <<globals, bindings_to_globals, evaluated_globals, start_code, ipc,
                    iret>>
    /\ UNCHANGED <<uvars, cvars, pvars, tvars, rvars, kvars, fvars>>

\* the lowering pushes the unit value
PushConstUnit ==
    /\ ipc = "lower" /\ Len(lowered) < MaxCode
    /\ LET r == push_const_unit(constants, lowered)
       IN /\ constants' = r.constants
          /\ lowered' = r.code
    /\ iop' = "push_const_unit"
    /\ UNCHANGED <<globals, bindings_to_globals, evaluated_globals, start_code, ipc,
                    iret>>
    /\ UNCHANGED <<uvars, cvars, pvars, tvars, rvars, kvars, fvars>>

\* a global is stored under a binding id
InsertGlobal(id, value) ==
    /\ ipc = "lower"
    /\ LET r == insert_global(globals, bindings_to_globals, id, value)
       IN /\ globals' = r.globals
          /\ bindings_to_globals' = r.bindings_to_globals
          /\ iret' = <<id, r.slot>>
    /\ iop' = "insert_global"
    /\ UNCHANGED <<constants, evaluated_globals, lowered, start_code, ipc>>
    /\ UNCHANGED <<uvars, cvars, pvars, tvars, rvars, kvars, fvars>>

\* the lowering of a compile-time top-level binding: its global slot and the
\* code that initializes it are appended to evaluated_globals
RegisterGlobal(id) ==
    /\ ipc = "lower" /\ Len(evaluated_globals) < MaxEvaluated
    /\ LET r == insert_global(globals, bindings_to_globals, id, VUnit)
       IN /\ globals' = r.globals
          /\ bindings_to_globals' = r.bindings_to_globals
          /\ evaluated_globals' =
                Append(evaluated_globals, <<r.slot, <<ISetGlobal(r.slot)>>>>)
          /\ iret' = <<id, r.slot>>
    /\ iop' = "register_global"
    /\ UNCHANGED <<constants, lowered, start_code, ipc>>
    /\ UNCHANGED <<uvars, cvars, pvars, tvars, rvars, kvars, fvars>>

\* eval after expr.lower: start_code.push(Halt), insert_init_instructions
\* (interp.rs 99-101)
Eval ==
    /\ ipc = "lower"
    /\ LET r == insert_init_instructions(constants, evaluated_globals,
                                         Append(lowered, IHalt))
       IN /\ constants' = r.constants
          /\ start_code' = r.code
    /\ ipc' = "done"
    /\ iop' = "insert_init_instructions"
    /\ UNCHANGED <<globals, bindings_to_globals, evaluated_globals, lowered, iret>>
    /\ UNCHANGED <<uvars, cvars, pvars, tvars, rvars, kvars, fvars>>

NextInterp ==
    \/ \E value \in ConstValues : PushConst(value)
    \/ PushConstUnit
    \/ \E id \in GlobalIds : InsertGlobal(id, VInt(1))
    \/ \E id \in GlobalIds : RegisterGlobal(id)
    \/ Eval

InitInterpStage ==
    InitInterp /\ InitUnify /\ CheckIdle /\ ParseIdle /\ TopIdle /\ ResolveIdle
    /\ CallIdle /\ PatternIdle

SpecInterp == InitInterpStage /\ [][NextInterp]_vars

\* C18: prologue ordering.  The code eval produces starts with one pair
\* PushConst(slot); Call(0) per entry of evaluated_globals, in insertion
\* order, the slot holding the zero-argument Function that wraps that entry's
\* init code; the lowered instructions follow unchanged, Halt last.
C18_PrologueOrdering ==
    ipc = "done"
        => LET n == Len(evaluated_globals)
           IN /\ Len(start_code) = 2 * n + Len(lowered) + 1
              /\ \A k \in 1 .. n :
                    /\ start_code[2 * k - 1].op = "PushConst"
                    /\ start_code[2 * k] = ICall(0)
                    /\ start_code[2 * k - 1].arg + 1 \in DOMAIN constants
                    /\ constants[start_code[2 * k - 1].arg + 1]
                          = VFunction(evaluated_globals[k][1],
                                      evaluated_globals[k][2])
              /\ \A i \in DOMAIN lowered : start_code[2 * n + i] = lowered[i]
              /\ start_code[Len(start_code)] = IHalt

\* eval ran with two registered globals of different slots and lowered code
\* that pushed a constant of its own
C18_Witness ==
    /\ ipc = "done"
    /\ Len(evaluated_globals) = 2
    /\ evaluated_globals[1][1] # evaluated_globals[2][1]
    /\ \E i \in DOMAIN lowered : lowered[i].op = "PushConst" /\ lowered[i].arg > 0

\* C19: constant slot 0 is always Unit: every step keeps the constants that
\* exist, in their slots, and push_const_unit emits PushConst(0) without
\* growing the pool.
C19_UnitSlot ==
    /\ [](constants # <<>> => constants[1] = VUnit)
    /\ [][/\ Len(constants') >= Len(constants)
          /\ SubSeq(constants', 1, Len(constants)) = constants
          /\ iop' = "push_const_unit"
                => /\ constants' = constants
                   /\ lowered' = Append(lowered, IPushConst(0))]_vars

\* push_const_unit ran on a pool that had grown, and eval added the
\* prologue's Function constants after it
C19_Witness ==
    /\ ipc = "done"
    /\ Len(constants) >= 3
    /\ Len(evaluated_globals) >= 1
    /\ \E i \in DOMAIN lowered :
          /\ lowered[i] = IPushConst(0)
          /\ \E j \in 1 .. (i - 1) : lowered[j].arg > 0

(***************************************************************************)
(* The check of a call to a callee of function type (check/call.rs 22-296).*)
(* A parameter is [loc, default, ty]: whether its name is the track-caller *)
(* location parameter, whether it has a default value, and the kind of its *)
(* type.  A supplied argument is [checks, unifies, spread, ty]: whether    *)
(* its own check succeeds, whether its type unifies with the type it is    *)
(* passed for, whether it is spread, and the kind of its type.  An emitted *)
(* argument is [kind, idx, items].                                         *)
(***************************************************************************)
MaxParams == 3
MaxArgs == 2

ParamKinds ==
    { [loc |-> TRUE, default |-> FALSE, ty |-> "value"],
      [loc |-> FALSE, default |-> FALSE, ty |-> "value"],
      [loc |-> FALSE, default |-> TRUE, ty |-> "value"],
      [loc |-> FALSE, default |-> TRUE, ty |-> "type"] }

ArgKinds ==
    { [checks |-> TRUE, unifies |-> TRUE, spread |-> FALSE, ty |-> "value"],
      [checks |-> FALSE, unifies |-> TRUE, spread |-> FALSE, ty |-> "value"],
      [checks |-> TRUE, unifies |-> FALSE, spread |-> FALSE, ty |-> "value"],
      [checks |-> TRUE, unifies |-> TRUE, spread |-> TRUE, ty |-> "array"],
      [checks |-> TRUE, unifies |-> TRUE, spread |-> TRUE, ty |-> "slice"],
      [checks |-> TRUE, unifies |-> FALSE, spread |-> TRUE, ty |-> "array"],
      [checks |-> TRUE, unifies |-> TRUE, spread |-> TRUE, ty |-> "value"],
      [checks |-> TRUE, unifies |-> TRUE, spread |-> FALSE, ty |-> "type"] }

\* varargs: None, Some with no type, Some with a type
VarargsKinds == {"None", "Untyped", "Typed"}

\* an emitted argument that stands for one item: the location, the idx-th
\* supplied argument, the default of the idx-th parameter, a spread value
Emit(kind, idx) == [kind |-> kind, idx |-> idx, items |-> <<>>]

\* the slice built from the array literal of the individual variadic arguments
EmitSlice(items) == [kind |-> "varargs_slice", idx |-> 0, items |-> items]

\* Varargs::Empty, Varargs::Individual(nodes), Varargs::Spread(node); wrapped
\* tells whether the spread node is the Sequence of rvalue ref and
\* array-to-slice coercion
VarEmpty == [tag |-> "Empty", items |-> <<>>, wrapped |-> FALSE]
VarIndividual(items) == [tag |-> "Individual", items |-> items, wrapped |-> FALSE]
VarSpread(idx, wrapped) == [tag |-> "Spread", items |-> <<idx>>, wrapped |-> wrapped]

\* a fill that takes a default for every remaining parameter
fill_defaults_all(params, out) ==
    [ok |-> TRUE,
     out |-> out \o [j \in 1 .. (Len(params) - Len(out)) |->
                       Emit("default", Len(out) + j)]]

\* if args.len() < params.len(): the defaults of params.skip(args.len()), or
\* arg_mismatch at the first one that has none  (call.rs 258-270)
fill_defaults(params, out) ==
    IF Len(out) >= Len(params) THEN [ok |-> TRUE, out |-> out]
    ELSE IF \E j \in (Len(out) + 1) .. Len(params) : ~params[j].default
         THEN [ok |-> FALSE, out |-> out]
         ELSE [ok |-> TRUE,
               out |-> out \o [j \in 1 .. (Len(params) - Len(out)) |->
                                 Emit("default", Len(out) + j)]]

\* the kind of the normalized type of an emitted argument
EmittedTy(params, args, e) ==
    CASE e.kind = "arg"     -> args[e.idx].ty
      [] e.kind = "default" -> params[e.idx].ty
      [] e.kind = "spread"  -> "slice"
      [] OTHER              -> "value"

\* a validation that looks at the supplied arguments only
validate_supplied_only(params, args, out) ==
    \A i \in DOMAIN out : out[i].kind = "arg" => args[out[i].idx].ty # "type"

\* validate_call_args  (call.rs 348-366)
validate_call_args(params, args, out) ==
    \A i \in DOMAIN out : EmittedTy(params, args, out[i]) # "type"

\* a match that takes every spread argument for the last one
spread_anywhere(arg, is_last) == arg.spread

\* match (arg.spread, is_last) { (true, true) => ..  (call.rs 86-87)
spread_and_last(arg, is_last) == arg.spread /\ is_last

\* a spread of an array that keeps the array node
spread_node_unwrapped(idx, ty) == VarSpread(idx, FALSE)

\* the node a spread argument leaves in vararg_args: the slice itself, or for
\* an array the Sequence of its rvalue ref and the array-to-slice coercion
\* (call.rs 115-171)
spread_node(idx, ty) == VarSpread(idx, ty = "array")

\* a collector that appends every individual variadic argument by itself
collect_varargs_flat(varargs, var, out) ==
    IF varargs = "Typed" /\ var.tag = "Individual"
    THEN out \o [i \in DOMAIN var.items |-> Emit("arg", var.items[i])]
    ELSE out

\* the collector after the loop  (call.rs 227-256)
collect_varargs(varargs, var, out) ==
    IF varargs # "Typed" THEN out
    ELSE CASE var.tag = "Individual" -> Append(out, EmitSlice(var.items))
           [] var.tag = "Spread" ->
                Append(out, Emit(IF var.wrapped THEN "spread_slice" ELSE "spread",
                                 var.items[1]))
           [] OTHER -> out

InitCall ==
    /\ kparams \in SeqsUpTo(ParamKinds, MaxParams)
    /\ kvarargs \in VarargsKinds
    /\ kargs \in SeqsUpTo(ArgKinds, MaxArgs)
    /\ kpc = "offset"
    /\ kidx = 1
    /\ koffset = 0
    /\ kout = <<>>
    /\ kvar = VarEmpty
    /\ kres = "None"

\* let param_offset = match function_type.params.first() ..  (call.rs 40-66);
\* building the location argument can fail
ParamOffset ==
    /\ kpc = "offset"
    /\ IF kparams # <<>> /\ kparams[1].loc
       THEN \E built \in BOOLEAN :
               IF built
               THEN /\ kout' = <<Emit("location", 0)>>
                    /\ koffset' = 1
                    /\ kpc' = "args"
                    /\ UNCHANGED kres
               ELSE /\ kres' = "LocationErr"
                    /\ kpc' = "done"
                    /\ UNCHANGED <<kout, koffset>>
       ELSE /\ kpc' = "args"
            /\ UNCHANGED <<kout, koffset, kres>>
    /\ UNCHANGED <<kparams, kvarargs, kargs, kidx, kvar>>
    /\ UNCHANGED <<uvars, cvars, pvars, tvars, rvars, ivars, fvars>>

Fail(res) == [res |-> res, out |-> kout, var |-> kvar]

Pass(out, var) == [res |-> "None", out |-> out, var |-> var]

\* the outcome of one iteration of the argument loop  (call.rs 69-225)
CheckArgStep(arg, is_last) ==
    IF kidx + koffset <= Len(kparams)
    THEN IF ~arg.checks THEN Fail("CheckErr")
         ELSE IF ~arg.unifies THEN Fail("TypeMismatch")
         ELSE Pass(Append(kout, Emit("arg", kidx)), kvar)
    ELSE IF kvarargs = "None" THEN Fail("ArgMismatch")
    ELSE IF ~arg.checks THEN Fail("CheckErr")
    ELSE IF kvarargs = "Untyped"
    THEN IF arg.spread THEN Fail("SpreadUntyped")
         ELSE Pass(Append(kout, Emit("arg", kidx)), kvar)
    ELSE IF spread_and_last(arg, is_last)
    THEN CASE kvar.tag = "Individual" -> Fail("SpreadAfterIndividual")
           [] kvar.tag = "Spread" -> Fail("AlreadySpread")
           [] OTHER ->
                IF arg.ty \notin {"array", "slice"} THEN Fail("CannotSpread")
                ELSE IF ~arg.unifies THEN Fail("TypeMismatch")
                ELSE Pass(kout, spread_node(kidx, arg.ty))
    ELSE IF arg.spread THEN Fail("SpreadNotLast")
    ELSE IF ~arg.unifies THEN Fail("TypeMismatch")
    ELSE CASE kvar.tag = "Individual" ->
                Pass(kout, VarIndividual(Append(kvar.items, kidx)))
           [] kvar.tag = "Spread" -> Fail("Unreachable")
           [] OTHER -> Pass(kout, VarIndividual(<<kidx>>))

\* for (index, arg) in self.args.iter().enumerate()  (call.rs 69-225)
CheckArg ==
    /\ kpc = "args"
    /\ kidx <= Len(kargs)
    /\ LET r == CheckArgStep(kargs[kidx], kidx = Len(kargs))
       IN IF r.res # "None"
          THEN /\ kres' = r.res
               /\ kpc' = "done"
               /\ UNCHANGED <<kidx, kout, kvar>>
          ELSE /\ kout' = r.out
               /\ kvar' = r.var
               /\ kidx' = kidx + 1
               /\ UNCHANGED <<kres, kpc>>
    /\ UNCHANGED <<kparams, kvarargs, kargs, koffset>>
    /\ UNCHANGED <<uvars, cvars, pvars, tvars, rvars, ivars, fvars>>

\* the variadic arguments are pushed  (call.rs 227-256)
PushVarargs ==
    /\ kpc = "args"
    /\ kidx > Len(kargs)
    /\ kout' = collect_varargs(kvarargs, kvar, kout)
    /\ kpc' = "defaults"
    /\ UNCHANGED <<kparams, kvarargs, kargs, kidx, koffset, kvar, kres>>
    /\ UNCHANGED <<uvars, cvars, pvars, tvars, rvars, ivars, fvars>>

\* the default values  (call.rs 258-270)
FillDefaults ==
    /\ kpc = "defaults"
    /\ LET r == fill_defaults(kparams, kout)
       IN IF r.ok
          THEN /\ kout' = r.out
               /\ kpc' = "arity"
               /\ UNCHANGED kres
          ELSE /\ kres' = "ArgMismatch"
               /\ kpc' = "done"
               /\ UNCHANGED kout
    /\ UNCHANGED <<kparams, kvarargs, kargs, kidx, koffset, kvar>>
    /\ UNCHANGED <<uvars, cvars, pvars, tvars, rvars, ivars, fvars>>

\* the final arity match, validate_call_args and the Call node
\* (call.rs 272-296)
FinishCall ==
    /\ kpc = "arity"
    /\ kres' =
          IF kvarargs # "None" /\ Len(kout) < Len(kparams) THEN "ArgMismatch"
          ELSE IF kvarargs = "None" /\ Len(kout) # Len(kparams) THEN "ArgMismatch"
          ELSE IF ~validate_call_args(kparams, kargs, kout) THEN "InvalidArg"
          ELSE "Ok"
    /\ kpc' = "done"
    /\ UNCHANGED <<kparams, kvarargs, kargs, kidx, koffset, kout, kvar>>
    /\ UNCHANGED <<uvars, cvars, pvars, tvars, rvars, ivars, fvars>>

NextCall ==
    \/ ParamOffset
    \/ CheckArg
    \/ PushVarargs
    \/ FillDefaults
    \/ FinishCall

InitCallStage ==
    InitCall /\ InitUnify /\ CheckIdle /\ ParseIdle /\ TopIdle /\ ResolveIdle
    /\ InterpIdle /\ PatternIdle

SpecCall == InitCallStage /\ [][NextCall]_vars

\* the injected caller-location argument, if the callee has the parameter
Injected == IF kparams # <<>> /\ kparams[1].loc THEN 1 ELSE 0

\* the supplied arguments, with the injected one, do not exceed the
\* parameters, and every parameter they do not cover has a default value
ArityFits ==
    /\ Injected + Len(kargs) <= Len(kparams)
    /\ \A j \in (Injected + Len(kargs) + 1) .. Len(kparams) : kparams[j].default

\* the argument list of a successful call: the location, the supplied
\* arguments in order, the defaults in parameter order
ExpectedArgs ==
    (IF Injected = 1 THEN <<Emit("location", 0)>> ELSE <<>>)
    \o [i \in DOMAIN kargs |-> Emit("arg", i)]
    \o [j \in 1 .. (Len(kparams) - Injected - Len(kargs)) |->
          Emit("default", Injected + Len(kargs) + j)]

\* C20 as stated: for a callee without varargs the check succeeds only if
\* the arity fits, the emitted list then has params.len() entries, and a call
\* whose arity does not fit ends in the arity-mismatch error.
C20_ArityAsStated ==
    (kvarargs = "None" /\ kpc = "done")
        => /\ kres = "Ok"
                => ArityFits /\ kout = ExpectedArgs /\ Len(kout) = Len(kparams)
           /\ ~ArityFits => kres = "ArgMismatch"

\* C20: call arity.  For a callee without varargs the check succeeds only if
\* the arity fits; the emitted list is then the location, the supplied
\* arguments and the defaults in parameter order, params.len() entries.  A
\* call whose arity does not fit ends in an error: the arity mismatch, unless
\* building the location or checking a supplied argument that has a
\* parameter failed first.
C20_Arity ==
    (kvarargs = "None" /\ kpc = "done")
        => /\ kres = "Ok"
                => ArityFits /\ kout = ExpectedArgs /\ Len(kout) = Len(kparams)
           /\ ~ArityFits
                => \/ kres = "ArgMismatch"
                   \/ kres = "LocationErr" /\ Injected = 1
                   \/ /\ kres \in {"CheckErr", "TypeMismatch"}
                      /\ \E i \in DOMAIN kargs :
                            /\ Injected + i <= Len(kparams)
                            /\ ~(kargs[i].checks /\ kargs[i].unifies)

\* a call with the location injected, one supplied argument and one default
\* succeeded
C20_Witness ==
    /\ kvarargs = "None" /\ kpc = "done" /\ kres = "Ok"
    /\ Len(kparams) = 3 /\ Injected = 1 /\ Len(kargs) = 1
    /\ kout = <<Emit("location", 0), Emit("arg", 1), Emit("default", 3)>>

\* the supplied arguments beyond the declared parameters
Variadic(i) == i \in DOMAIN kargs /\ i + Injected > Len(kparams)

\* the argument loop ended the check at the argument kidx
FailedAt(i) ==
    kpc = "done" /\ kidx = i /\ i \in DOMAIN kargs /\ kres # "LocationErr"

\* C21: spread rules of a typed variadic callee.  A spread argument in
\* variadic position is accepted only as the last call argument, with no
\* individual variadic argument before it and with an array or slice type; a
\* spread that is not last ends the check with the spread-not-last error, a
\* last spread after individual variadic arguments or of another type ends it
\* with an error.
C21_SpreadRules ==
    kvarargs = "Typed"
        => /\ kvar.tag = "Spread"
                => /\ kvar.items = <<Len(kargs)>>
                   /\ Variadic(Len(kargs))
                   /\ kargs[Len(kargs)].spread
                   /\ kargs[Len(kargs)].ty \in {"array", "slice"}
                   /\ \A i \in 1 .. (Len(kargs) - 1) : ~Variadic(i)
           /\ \A i \in DOMAIN kargs :
                 (Variadic(i) /\ kargs[i].spread /\ kidx > i)
                    => kvar.tag = "Spread" /\ kvar.items = <<i>>
           /\ \A i \in DOMAIN kargs :
                 (FailedAt(i) /\ Variadic(i) /\ kargs[i].spread /\ kargs[i].checks)
                    => /\ i < Len(kargs) => kres = "SpreadNotLast"
                       /\ (i = Len(kargs) /\ kvar.tag = "Individual")
                             => kres = "SpreadAfterIndividual"
                       /\ (i = Len(kargs) /\ kvar.tag = "Empty"
                              /\ kargs[i].ty \notin {"array", "slice"})
                             => kres = "CannotSpread"

\* the check ended at a last spread that followed an individual variadic
\* argument
C21_Witness ==
    /\ kvarargs = "Typed"
    /\ FailedAt(2) /\ Len(kargs) = 2
    /\ Variadic(1) /\ kargs[2].spread /\ kargs[2].ty = "array"
    /\ kvar.tag = "Individual"
    /\ kres = "SpreadAfterIndividual"

\* C22: an accepted spread argument contributes exactly one emitted
\* argument, the last one, and it is the spread value itself, with no
\* address-of or array-to-slice coercion built around it, for a slice and for
\* an array.
C22_SpreadItself ==
    (kvarargs = "Typed" /\ kpc = "done" /\ kres = "Ok" /\ kvar.tag = "Spread")
        => /\ Len(kout) = Len(kparams) + 1
           /\ kout[Len(kout)] = Emit("spread", Len(kargs))
           /\ \A i \in 1 .. (Len(kout) - 1) :
                 kout[i].kind \notin {"spread", "spread_slice", "varargs_slice"}

\* the indices of the supplied arguments beyond the parameters, in call order
VariadicArgs ==
    [j \in 1 .. (Len(kargs) + Injected - Len(kparams)) |->
        Len(kparams) - Injected + j]

\* C23: individual varargs packing.  For a typed variadic callee called with
\* k >= 1 non-spread arguments beyond the parameters the emitted call has
\* exactly params.len() + 1 arguments, the last one being one slice built
\* from the array literal of those k values in call order; with no variadic
\* argument and no spread nothing is appended.
C23_IndividualPacking ==
    (kvarargs = "Typed" /\ kpc = "done" /\ kres = "Ok"
        /\ \A i \in DOMAIN kargs : Variadic(i) => ~kargs[i].spread)
        => /\ Len(kout) = Len(kparams) + (IF Len(VariadicArgs) >= 1 THEN 1 ELSE 0)
           /\ \A i \in 1 .. Len(kparams) :
                 kout[i].kind \in {"location", "arg", "default"}
           /\ Len(VariadicArgs) >= 1
                => kout[Len(kout)] = EmitSlice(VariadicArgs)

\* two values beyond the only parameter, the injected location, were packed
\* into one slice
C23_Witness ==
    /\ kvarargs = "Typed" /\ kpc = "done" /\ kres = "Ok"
    /\ Len(kparams) = 1 /\ Injected = 1 /\ Len(kargs) = 2
    /\ kout = <<Emit("location", 0), EmitSlice(<<1, 2>>)>>

C27_SpreadOnlyLast ==
    /\ kres \notin {"Unreachable", "AlreadySpread"}
    /\ kvar.tag = "Spread"
          => /\ kidx = Len(kargs) + 1
             /\ kvar.items = <<Len(kargs)>>
             /\ kvarargs = "Typed"

\* the second of two arguments was a spread and set the varargs state
C27_Witness ==
    /\ kvar.tag = "Spread" /\ Len(kargs) = 2 /\ kpc = "args"
    /\ kidx = 3 /\ ~Variadic(1)

Retained(imports) == SelectSeq(imports, LAMBDA i : ~is_glob(i))

\* C28: glob replacement keeps the other imports.  The imports of an
\* expanded Ast begin with the non-glob imports of the input, unchanged and
\* in their original relative order, for any number and position of globs,
\* and every import after them is the expansion of a glob of the input.
C28_NonGlobKept ==
    \A a \in Expanded :
        LET in == rin[a].imports
            out == rasts[a].imports
            kept == Retained(in)
        IN /\ Len(out) >= Len(kept)
           /\ SubSeq(out, 1, Len(kept)) = kept
           /\ \A k \in (Len(kept) + 1) .. Len(out) :
                 /\ out[k] \notin Range(in)
                 /\ \E j \in DOMAIN in :
                       is_glob(in[j]) /\ out[k].span = in[j].span

\* two globs before a plain import were replaced: the plain import is now
\* the first one and the expansions follow it
C28_Witness ==
    /\ rpc = "done"
    /\ Len(rin[1].imports) = 3
    /\ is_glob(rin[1].imports[1])
    /\ is_glob(rin[1].imports[2])
    /\ ~is_glob(rin[1].imports[3])
    /\ rasts[1].imports[1] = rin[1].imports[3]
    /\ Len(rasts[1].imports) >= 3

\* C29: the global slot map.  After any sequence of insert_global calls
\* bindings_to_globals is injective, maps into the slots below
\* globals.len(), and globals.len() is the number of distinct ids inserted.
\* An insert_global of an id that has a slot returns that slot, overwrites
\* the value of that slot only and leaves the map, the other globals and the
\* length unchanged; get_global(id) is the slot insert_global(id) returned.
C29_GlobalSlots ==
    /\ [](/\ \A x \in DOMAIN bindings_to_globals, y \in DOMAIN bindings_to_globals :
                bindings_to_globals[x] = bindings_to_globals[y] => x = y
          /\ \A x \in DOMAIN bindings_to_globals :
                bindings_to_globals[x] \in 0 .. (Len(globals) - 1)
          /\ Len(globals) = Cardinality(DOMAIN bindings_to_globals)
          /\ iret # <<>> => get_global(bindings_to_globals, iret[1]) = <<iret[2]>>)
    /\ [][iop' = "insert_global"
            => /\ get_global(bindings_to_globals', iret'[1]) = <<iret'[2]>>
               /\ iret'[1] \in DOMAIN bindings_to_globals
                     => /\ iret'[2] = bindings_to_globals[iret'[1]]
                        /\ bindings_to_globals' = bindings_to_globals
                        /\ Len(globals') = Len(globals)
                        /\ \A k \in DOMAIN globals :
                              k # iret'[2] + 1 => globals'[k] = globals[k]
               /\ iret'[1] \notin DOMAIN bindings_to_globals
                     => /\ iret'[2] = Len(globals)
                        /\ SubSeq(globals', 1, Len(globals)) = globals]_vars

\* the first of two ids was inserted again: its slot 0 was returned and holds
\* the inserted value, the slot of the other id holds its own value
C29_Witness ==
    /\ iop = "insert_global"
    /\ Len(globals) = 2
    /\ iret = <<1, 0>>
    /\ bindings_to_globals[2] = 1
    /\ globals[1] = VInt(1)
    /\ globals[2] = VUnit

\* ---------------------------------------------------------------------------
\* The parser cursor  (chili_parse/src/lib.rs 37-69, 229-266)
\* ---------------------------------------------------------------------------

\* is!(parser, kind)  (lib.rs 37-48)
is(toks, c, kind) == IF is_end(toks, c) THEN FALSE ELSE peek(toks, c) = kind

\* eat!(parser, kind)  (lib.rs 50-59)
eat(toks, c, kind) ==
    IF is(toks, c, kind) THEN [res |-> TRUE, cur |-> bump(toks, c)]
    ELSE [res |-> FALSE, cur |-> c]

\* require!(parser, kind, msg)  (lib.rs 61-69)
require(toks, c, kind) ==
    IF is(toks, c, kind) THEN [ok |-> TRUE, cur |-> bump(toks, c)]
    ELSE [ok |-> FALSE, cur |-> c]

\* previous() is tokens.get(current - 1).unwrap(): there is no token before
\* the first one  (lib.rs 247-249)
previous_panics(c) == c = 1

\* the token kinds the macros are called with
CursorKinds == {"Let", "Semi"}

InitCursor ==
    /\ tparser \in {"cursor", "parse_inner"}
    /\ tokens \in TokenInputs
    /\ current = 1
    /\ tbindings = <<>>
    /\ tdiags = <<>>
    /\ tres = "None"

\* self.bump()  (lib.rs 229-234); tres is the operation that ran last and
\* its result
Bump ==
    /\ tparser = "cursor" /\ tres # "Panicked"
    /\ current' = bump(tokens, current)
    /\ tres' = IF previous_panics(current') THEN "Panicked" ELSE "bump"
    /\ UNCHANGED <<tparser, tokens, tbindings, tdiags>>
    /\ UNCHANGED <<uvars, cvars, pvars, rvars, ivars, kvars, fvars>>

Is(kind) ==
    /\ tparser = "cursor" /\ tres # "Panicked"
    /\ tres' = IF is(tokens, current, kind) THEN "is: true" ELSE "is: false"
    /\ UNCHANGED <<tparser, tokens, current, tbindings, tdiags>>
    /\ UNCHANGED <<uvars, cvars, pvars, rvars, ivars, kvars, fvars>>

Eat(kind) ==
    /\ tparser = "cursor" /\ tres # "Panicked"
    /\ LET r == eat(tokens, current, kind)
       IN /\ current' = r.cur
          /\ tres' = IF r.res THEN "eat: true" ELSE "eat: false"
    /\ UNCHANGED <<tparser, tokens, tbindings, tdiags>>
    /\ UNCHANGED <<uvars, cvars, pvars, rvars, ivars, kvars, fvars>>

Require(kind) ==
    /\ tparser = "cursor" /\ tres # "Panicked"
    /\ LET r == require(tokens, current, kind)
       IN /\ current' = r.cur
          /\ tres' = IF r.ok THEN "require: Ok" ELSE "require: Err"
    /\ UNCHANGED <<tparser, tokens, tbindings, tdiags>>
    /\ UNCHANGED <<uvars, cvars, pvars, rvars, ivars, kvars, fvars>>

SkipSemicolons ==
    /\ tparser = "cursor" /\ tres # "Panicked"
    /\ current' = skip_semicolons(tokens, current)
    /\ tres' = "skip_semicolons"
    /\ UNCHANGED <<tparser, tokens, tbindings, tdiags>>
    /\ UNCHANGED <<uvars, cvars, pvars, rvars, ivars, kvars, fvars>>

NextCursor ==
    \/ Bump
    \/ \E kind \in CursorKinds : Is(kind)
    \/ \E kind \in CursorKinds : Eat(kind)
    \/ \E kind \in CursorKinds : Require(kind)
    \/ SkipSemicolons
    \/ ParseInnerIter
    \/ ParseInnerEnd

InitCursorStage ==
    InitCursor /\ InitUnify /\ CheckIdle /\ ParseIdle /\ ResolveIdle /\ InterpIdle
    /\ CallIdle /\ PatternIdle

SpecCursor == InitCursorStage /\ [][NextCursor]_vars

\* parse_inner runs its loop to the end in one thread
SpecCursorFair == SpecCursor /\ WF_vars(ParseInnerIter \/ ParseInnerEnd)

\* the index of the Eof token
EofIndex == CHOOSE i \in DOMAIN tokens : tokens[i] = "Eof"

\* C30: the parser cursor.  For a token list that ends with Eof, after any
\* sequence of bump, is!, eat!, require! and skip_semicolons the cursor is an
\* index of the list not after the Eof token, so peek() is never out of
\* bounds; a bump at Eof leaves the cursor unchanged; every iteration of the
\* loop of parse_inner that does not return Failed advances the cursor by at
\* least one token, and the loop terminates.
C30_CursorInBounds ==
    /\ [](/\ current \in DOMAIN tokens
          /\ current <= EofIndex)
    /\ [][(tres' \in {"bump", "Panicked"} /\ is_end(tokens, current))
             => current' = current]_vars
    /\ [][(tparser = "parse_inner" /\ tres' = "None") => current' > current]_vars
    /\ (tparser = "parse_inner") => <>(tres \in {"NewAst", "Failed"})

\* parse_inner went through its loop twice and returned the Ast at Eof
C30_Witness ==
    /\ tparser = "parse_inner" /\ tres = "NewAst"
    /\ Len(tbindings) = 2
    /\ is_end(tokens, current) /\ current = EofIndex

\* ---------------------------------------------------------------------------
\* The projections of a Pattern to its single form
\* (chili_ast/src/pattern.rs 28-47)
\* ---------------------------------------------------------------------------

MaxInfoIds == 8

PatternKinds == {"Single", "StructDestructor", "TupleDestructor"}

\* a Pattern::Single is its SymbolPattern; a destructor has no symbol of its
\* own
PatternInputs ==
    {SymbolPattern("Single", sym, id) : sym \in Symbols, id \in 1 .. MaxInfoIds}
    \cup {SymbolPattern(kind, "", id) :
            kind \in PatternKinds \ {"Single"},
            id \in 1 .. MaxInfoIds}

\* what a call produced: the symbol pattern, an error value, or the panic
Returned(pat) == [tag |-> "Returned", pat |-> pat]
ErrExpectedSingle == [tag |-> "Err(ExpectedSingle)", pat |-> <<>>]
Panicked == [tag |-> "Panicked", pat |-> <<>>]

\* into_single_ref  (pattern.rs 35-40)
into_single_ref(pattern) ==
    IF pattern.kind = "Single" THEN [ok |-> TRUE, pat |-> pattern]
    ELSE [ok |-> FALSE, pat |-> pattern]

\* into_single_mut  (pattern.rs 42-47)
into_single_mut(pattern) ==
    IF pattern.kind = "Single" THEN [ok |-> TRUE, pat |-> pattern]
    ELSE [ok |-> FALSE, pat |-> pattern]

\* the outcome of a projection: the `_ => panic!(..)` arm has no error value
Outcome(r) == IF r.ok THEN Returned(r.pat) ELSE Panicked

InitPattern ==
    /\ fpat \in PatternInputs
    /\ fop = "none"
    /\ fres = <<>>

IntoSingle ==
    /\ fop = "none"
    /\ fop' = "into_single"
    /\ fres' = Outcome(into_single(fpat))
    /\ UNCHANGED fpat
    /\ UNCHANGED <<uvars, cvars, pvars, tvars, rvars, ivars, kvars>>

IntoSingleRef ==
    /\ fop = "none"
    /\ fop' = "into_single_ref"
    /\ fres' = Outcome(into_single_ref(fpat))
    /\ UNCHANGED fpat
    /\ UNCHANGED <<uvars, cvars, pvars, tvars, rvars, ivars, kvars>>

IntoSingleMut ==
    /\ fop = "none"
    /\ fop' = "into_single_mut"
    /\ fres' = Outcome(into_single_mut(fpat))
    /\ UNCHANGED fpat
    /\ UNCHANGED <<uvars, cvars, pvars, tvars, rvars, ivars, kvars>>

NextPattern ==
    \/ IntoSingle
    \/ IntoSingleRef
    \/ IntoSingleMut

InitPatternStage ==
    InitPattern /\ InitUnify /\ CheckIdle /\ ParseIdle /\ TopIdle /\ ResolveIdle
    /\ InterpIdle /\ CallIdle

SpecPattern == InitPatternStage /\ [][NextPattern]_vars

\* C25: the projections to the single form.  into_single, into_single_ref
\* and into_single_mut return the symbol pattern of a Single pattern, and for
\* a StructDestructor or TupleDestructor pattern they fail with the
\* ExpectedSingle error value, which the caller can handle; they do not
\* abort.
C25_ExpectedSingle ==
    fop # "none"
        => fres = IF fpat.kind = "Single" THEN Returned(fpat)
                  ELSE ErrExpectedSingle

====
